---- MODULE Spec2Model ----
(***************************************************************************)
(* The activity fetch cycle of the Math Academy Stats popup:               *)
(* entrypoints/popup/fetchActivities.ts (cache, cursor paginator, merge)   *)
(* driven by entrypoints/popup/App.tsx (handleGetData, handleClearCache).  *)
(*                                                                         *)
(* Time is counted in seconds (the source counts milliseconds; every       *)
(* duration of the source is a whole number of seconds).  JavaScript       *)
(* values that are not finite numbers are encoded as integers outside the  *)
(* range of every time of the model: NaN, NegInfinity, Undefined.          *)
(***************************************************************************)
EXTENDS Integers, Sequences, FiniteSets, TLC

VARIABLES
    clock,            \* Date.now(), in seconds
    server,           \* the records the remote endpoint holds
    policy,           \* how the endpoint cuts its pages: "newest" or "any"
    pageSize,         \* page size of the "newest" policy
    cache,            \* localStorage[CACHE_KEY]
    activities,       \* App state: activities
    loading,          \* App state: loading
    progress,         \* App state: progress
    error,            \* App state: error
    pc,               \* position of the fetch cycle
    cachedActivities, \* fetchAllActivities: cachedActivities
    windowStart,      \* fetchAllActivities: WINDOW_START
    windowEnd,        \* fetchAllActivities: WINDOW_END
    newActivities,    \* fetchAllActivities: newActivities
    seen,             \* fetchAllActivities: seen
    cursor,           \* fetchAllActivities: cursor (a Date; NaN when invalid)
    lastCursorMs,     \* fetchAllActivities: lastCursorMs
    pages,            \* fetchAllActivities: pages
    exit,             \* which exit of the while loop was taken
    requests,         \* page requests issued in this cycle (saturates at ReqCap)
    result,           \* the settled value of the fetchAllActivities promise
    cycle,            \* fetch cycles started so far
    committed,        \* the cache holds what a completed cycle wrote
    frontier,         \* the frontier page: FrontierPage state and loadTopics
    stats             \* the statistics pages: an activity list and its figures

popupVars == <<clock, server, policy, pageSize, cache, activities, loading, progress,
          error, pc, cachedActivities, windowStart, windowEnd, newActivities,
          seen, cursor, lastCursorMs, pages, exit, requests, result, cycle,
          committed>>

vars == <<popupVars, frontier, stats>>

----------------------------------------------------------------------------
(* Program constants *)

MAX_PAGES == 200
OVERLAP_DAYS == 1000
DaySec == 86400
LeadSec == 60
WindowSec == 3 * 365 * 24 * 60 * 60

(* A Date holds a time value of at most 8.64e15 ms in absolute value; a    *)
(* larger one makes an Invalid Date.  TLC's integers are 32 bits wide, so  *)
(* the limit is scaled down; all that matters is that it lies far outside  *)
(* every window.                                                           *)
DateMaxSec == 2000000000

(* Encodings of the JavaScript values that are not finite numbers. *)
NaN == 2147483647
NegInfinity == -2147483647
Undefined == 2147483646
NoId == -1

IsFinite(v) == v # NaN /\ v # NegInfinity /\ v # Undefined

(* new Date(ms): TimeClip *)
NewDate(ms) ==
    IF ~IsFinite(ms) \/ ms > DateMaxSec \/ ms < -DateMaxSec THEN NaN ELSE ms

(* a - b on numbers, NaN absorbing *)
Minus(a, b) == IF a = NaN \/ b = NaN THEN NaN ELSE a - b

(* a < b on numbers: false when either is NaN *)
Less(a, b) == a # NaN /\ b # NaN /\ a < b

(* a === b on numbers: false when either is NaN *)
StrictEq(a, b) == a # NaN /\ b # NaN /\ a = b

----------------------------------------------------------------------------
(* Activity records: id and the raw completed field as received *)

Raw(k, v) == [k |-> k, v |-> v]
Activity(id, completed) == [id |-> id, completed |-> completed]

RECURSIVE Digits(_)
Digits(n) == IF n < 10 THEN 1 ELSE 1 + Digits(n \div 10)

(* String(n).length for the number n = v * 1000 (v in seconds) *)
StringLength(v) ==
    IF v = 0 THEN 1
    ELSE IF v > 0 THEN Digits(v) + 3
    ELSE 1 + Digits(-v) + 3

(* Date.parse(candidate): a date string gives its time, anything else NaN  *)
DateParse(c) == IF c.k = "date" THEN c.v ELSE NaN

(* Number(candidate) of a string *)
ToNumber(c) == IF c.k = "numstr" THEN c.v ELSE NaN

getItemTimeMs(item) ==
    LET candidate == item.completed IN
    IF candidate.k = "absent" \/ (candidate.k = "number" /\ candidate.v = 0)
    THEN Undefined
    ELSE IF candidate.k = "number" THEN candidate.v
    ELSE LET n == ToNumber(candidate) IN
         IF IsFinite(n) /\ StringLength(n) >= 10 THEN n
         ELSE LET t == DateParse(candidate) IN
              IF IsFinite(t) THEN t ELSE Undefined

bestTime(item) ==
    LET t == getItemTimeMs(item) IN
    IF t # Undefined THEN t ELSE NegInfinity

(* a comparator that subtracts the wrong way round: bestTime(a) - bestTime(b) *)
compareAscending(a, b) ==
    LET ta == bestTime(a)
        tb == bestTime(b)
    IN  IF ta = tb THEN 0
        ELSE IF ta = NegInfinity THEN -1
        ELSE IF tb = NegInfinity THEN 1
        ELSE IF ta > tb THEN 1 ELSE -1

(* the comparator of sortActivities, bestTime(b) - bestTime(a), by sign;   *)
(* -Infinity - -Infinity is NaN, which sort treats as 0                    *)
compare(a, b) ==
    LET ta == bestTime(a)
        tb == bestTime(b)
    IN  IF ta = tb THEN 0
        ELSE IF ta = NegInfinity THEN 1
        ELSE IF tb = NegInfinity THEN -1
        ELSE IF tb > ta THEN 1 ELSE -1

(* lines 132-134: items.sort(compare).  Array.prototype.sort is stable and *)
(* compare is a consistent ordering, so the item at index i lands behind   *)
(* exactly the items that compare before it, or equal and earlier in the   *)
(* array.                                                                  *)
sortActivities(items) ==
    LET n == Len(items)
        Precedes(j, i) ==
            LET c == compare(items[j], items[i]) IN c < 0 \/ (c = 0 /\ j < i)
        place == {<<Cardinality({j \in 1..n : Precedes(j, i)}) + 1, i>> : i \in 1..n}
    IN  [k \in 1..n |-> items[(CHOOSE p \in place : p[1] = k)[2]]]

----------------------------------------------------------------------------
(* The cache: the raw value stored under CACHE_KEY *)

Absent == [k |-> "absent", items |-> <<>>, updatedAt |-> 0]
Payload(items, at) == [k |-> "payload", items |-> items, updatedAt |-> at]
Legacy(items) == [k |-> "array", items |-> items, updatedAt |-> 0]
Corrupt == [k |-> "corrupt", items |-> <<>>, updatedAt |-> 0]

readCache(raw) ==
    IF raw.k = "absent" THEN <<>>
    ELSE IF raw.k = "array" THEN raw.items
    ELSE IF raw.k = "payload" THEN raw.items
    ELSE <<>>

(* a write that fails half way and leaves a truncated list behind *)
writeCacheTorn(raw, items, at, ok) ==
    IF ok THEN Payload(items, at)
    ELSE Payload(SubSeq(items, 1, Len(items) - 1), at)

(* localStorage.setItem either stores the whole string or throws (quota)   *)
(* and leaves the old value; writeCache swallows the exception             *)
writeCache(raw, items, at, ok) == IF ok THEN Payload(items, at) ELSE raw

getCachedActivities(raw) == sortActivities(readCache(raw))

(* a clear that leaves the stored value in place *)
clearKeepsPayload(raw) == raw

clearActivityCache(raw) == Absent

----------------------------------------------------------------------------
(* The remote endpoint *)

Elems(s) == {s[i] : i \in 1..Len(s)}

MaxOf(S) == CHOOSE m \in S : \A x \in S : x <= m

(* the first record of S in the endpoint's order: newest first, then by id *)
First(S) ==
    LET newest == MaxOf({bestTime(r) : r \in S})
        ties == {r \in S : bestTime(r) = newest}
    IN  CHOOSE r \in ties : \A q \in ties : r.id <= q.id

RECURSIVE TakeNewest(_, _)
TakeNewest(S, n) ==
    IF S = {} \/ n = 0 THEN <<>>
    ELSE LET r == First(S) IN <<r>> \o TakeNewest(S \ {r}, n - 1)

Descending(S) == TakeNewest(S, Cardinality(S))

(* records the endpoint can date, completed at or before the cursor *)
Eligible(c) ==
    {r \in server : getItemTimeMs(r) # Undefined /\ getItemTimeMs(r) <= c}

(* The pages the endpoint may answer a request at cursor c with.  Policy   *)
(* "newest": the pageSize newest records completed at or before c, and no  *)
(* record for a cursor the endpoint cannot read (the path of an Invalid     *)
(* Date); policy "any": any records at all.                                 *)
ServerPages(c) ==
    IF policy = "newest" /\ c # NaN
    THEN {TakeNewest(Eligible(c), pageSize)}
    ELSE IF policy = "newest"
    THEN {<<>>}
    ELSE {Descending(S) : S \in SUBSET server}

FailureKinds == {"network", "http", "not-array"}

----------------------------------------------------------------------------
(* fetchAllActivities, step by step *)

IdsOf(items) == {items[i].id : i \in 1..Len(items)} \ {NoId}

(* lines 221-235: the items of the page not seen before, in page order *)
RECURSIVE FreshItems(_, _, _)
FreshItems(page, i, known) ==
    IF i > Len(page) THEN <<>>
    ELSE LET item == page[i] IN
         IF item.id # NoId /\ item.id \in known
         THEN FreshItems(page, i + 1, known)
         ELSE <<item>> \o FreshItems(page, i + 1,
                  IF item.id # NoId THEN known \cup {item.id} ELSE known)

PageTimes(page) ==
    {getItemTimeMs(page[i]) : i \in 1..Len(page)} \ {Undefined}

MinOf(S) == CHOOSE m \in S : \A x \in S : m <= x

(* a backoff that leaves the cursor where it is *)
BackoffNone(c) == c

(* lines 211, 250, 255: the cursor stepped back OVERLAP_DAYS *)
Backoff(c) == NewDate(Minus(c, OVERLAP_DAYS * DaySec))

(* lines 241-258: the cursor after a non-empty page *)
NextCursor(page, c, last) ==
    LET times == PageTimes(page) IN
    IF times # {}
    THEN LET nextMs == MinOf(times) - LeadSec IN
         IF ~Less(nextMs, last) THEN Backoff(c) ELSE NewDate(nextMs)
    ELSE Backoff(c)

(* a merge that appends every cached item without looking at its id *)
MergeCachedAll(cached, seenIds) == cached

(* lines 288-296: the cached items to append: those without a numeric id,  *)
(* and the first cached item of each id that is not among seenIds (the     *)
(* loop adds each id it appends to seenIds)                                *)
MergeCached(cached, seenIds) ==
    LET Kept(i) ==
            \/ cached[i].id = NoId
            \/ /\ cached[i].id \notin seenIds
               /\ \A j \in 1..(i - 1) : cached[j].id # cached[i].id
        kept == SelectSeq([i \in 1..Len(cached) |-> i], Kept)
    IN  [k \in 1..Len(kept) |-> cached[kept[k]]]

(* a merge that keeps the new items only *)
CombinedFreshOnly(fresh, cached) == fresh

Combined(fresh, cached) == fresh \o MergeCached(cached, IdsOf(fresh))

(* a filter that drops the records without a resolvable time *)
InWindowDropsUndated(item, ws, we) ==
    LET t == getItemTimeMs(item) IN
    IF t = Undefined THEN FALSE ELSE t >= ws /\ t <= we

(* lines 298-302 *)
InWindow(item, ws, we) ==
    LET t == getItemTimeMs(item) IN
    IF t = Undefined THEN TRUE ELSE t >= ws /\ t <= we

Filter(items, ws, we) ==
    LET Keep(item) == InWindow(item, ws, we) IN SelectSeq(items, Keep)

FinalList(fresh, cached, ws, we) ==
    sortActivities(Filter(Combined(fresh, cached), ws, we))

----------------------------------------------------------------------------
(* Bounds of the model and the inputs it draws from *)

MaxCycles == 2      \* fetch cycles per behaviour
MaxPageSize == 2    \* page sizes of the "newest" policy
MaxTicks == 1       \* clock advances per behaviour

Now0 == 100000000   \* the clock when the popup opens
TickSec == 10       \* one clock advance
ReqCap == MAX_PAGES + 2

At(t) == Raw("date", t)

RA == Activity(1, At(Now0 - 100))
RB == Activity(2, At(Now0 - 130))            \* 30 s before RA
RC == Activity(3, Raw("numstr", Now0 - 5000))
ROld == Activity(4, Raw("number", Now0 - WindowSec - 10))
RU == Activity(5, Raw("garbage", 0))
RA2 == Activity(1, At(Now0 - 7000))          \* the id of RA, other content
RN == Activity(NoId, At(Now0 - 200))         \* no numeric id
REdge == Activity(6, At(Now0 - WindowSec + 5))
RHuge == Activity(7, Raw("number", -DateMaxSec - 1))

Histories ==
    { {}, {RA, RB}, {RA, RB, RC}, {RA2, RC}, {RU, RA},
      {ROld, RA}, {RN, RA}, {REdge, RC}, {RB, ROld, RU} }

Caches ==
    { Absent, Corrupt, Payload(<<>>, 0), Payload(<<RA>>, 0),
      Payload(<<RU, RC, RA>>, 0), Payload(<<RA, RA2>>, 0), Legacy(<<RB>>),
      Payload(<<ROld, REdge>>, 0), Payload(<<RN>>, 0) }

(* the dense history: MAX_PAGES records evenly spread over the window, the *)
(* oldest one at WINDOW_START                                              *)
DenseN == MAX_PAGES
DenseGap == WindowSec \div DenseN
Dense == {Activity(100 + i, At(Now0 - i * DenseGap)) : i \in 1..DenseN}
DenseTight == {Activity(100 + i, At(Now0 - i * (LeadSec + 1))) : i \in 1..DenseN}

----------------------------------------------------------------------------
(* The state machine *)

NoResult == [status |-> "none", value |-> <<>>]
Resolved(v) == [status |-> "resolved", value |-> v]
Rejected == [status |-> "rejected", value |-> <<>>]

(* the locals of fetchAllActivities outside a cycle *)
LocalsReset ==
    /\ cachedActivities' = <<>>
    /\ windowStart' = 0
    /\ windowEnd' = 0
    /\ newActivities' = <<>>
    /\ seen' = {}
    /\ cursor' = 0
    /\ lastCursorMs' = 0
    /\ pages' = 0
    /\ exit' = "none"

(* a page that is not open *)
NotOpen == [pc |-> "closed"]

(* App.tsx 8-22: the state after the popup mounted *)
Mounted(c) ==
    /\ clock = Now0
    /\ cache = c
    /\ activities = getCachedActivities(c)
    /\ loading = FALSE
    /\ progress = IF activities # <<>> THEN "cached" ELSE ""
    /\ error = ""
    /\ pc = "idle"
    /\ cachedActivities = <<>>
    /\ windowStart = 0
    /\ windowEnd = 0
    /\ newActivities = <<>>
    /\ seen = {}
    /\ cursor = 0
    /\ lastCursorMs = 0
    /\ pages = 0
    /\ exit = "none"
    /\ requests = 0
    /\ result = NoResult
    /\ committed = FALSE

Init ==
    /\ server \in Histories
    /\ \/ policy = "any" /\ pageSize = 1 /\ Cardinality(server) <= 2
       \/ policy = "newest" /\ pageSize \in 1..MaxPageSize
    /\ \E c \in Caches : Mounted(c)
    /\ cycle = 0
    /\ frontier = NotOpen
    /\ stats = NotOpen

Settled == pc \in {"idle", "done", "failed"}

(* a cycle that does not seed seen with the cached ids *)
StartFetchSeenEmpty ==
    /\ Settled
    /\ ~loading
    /\ cycle < MaxCycles
    /\ cycle' = cycle + 1
    /\ loading' = TRUE
    /\ error' = ""
    /\ progress' = "busy"
    /\ cachedActivities' = getCachedActivities(cache)
    /\ windowEnd' = clock
    /\ windowStart' = clock - WindowSec
    /\ newActivities' = <<>>
    /\ seen' = {}
    /\ cursor' = NewDate(clock)
    /\ pages' = 0
    /\ lastCursorMs' = clock
    /\ exit' = "none"
    /\ requests' = 1
    /\ result' = NoResult
    /\ pc' = "fetching"
    /\ UNCHANGED <<frontier, stats, clock, server, policy, pageSize, cache, activities, committed>>

(* App.tsx 24-30 and fetchActivities.ts 169-205: the click on the Get Data *)
(* button up to the first page request                                     *)
StartFetch ==
    /\ Settled
    /\ ~loading
    /\ cycle < MaxCycles
    /\ cycle' = cycle + 1
    /\ loading' = TRUE
    /\ error' = ""
    /\ progress' = "busy"
    /\ cachedActivities' = getCachedActivities(cache)
    /\ windowEnd' = clock
    /\ windowStart' = clock - WindowSec
    /\ newActivities' = <<>>
    /\ seen' = IdsOf(cachedActivities')
    /\ cursor' = NewDate(clock)
    /\ pages' = 0
    /\ lastCursorMs' = clock
    /\ exit' = "none"
    /\ requests' = 1
    /\ result' = NoResult
    /\ pc' = "fetching"
    /\ UNCHANGED <<frontier, stats, clock, server, policy, pageSize, cache, activities, committed>>

(* a failure path that saves what was accumulated so far *)
ReceiveErrorSavesPartial ==
    /\ pc = "fetching"
    /\ \E kind \in FailureKinds : error' = kind
    /\ progress' = ""
    /\ loading' = FALSE
    /\ result' = Rejected
    /\ pc' = "failed"
    /\ cache' = Payload(newActivities, clock)
    /\ LocalsReset
    /\ UNCHANGED <<frontier, stats, clock, server, policy, pageSize, activities,
                   requests, cycle, committed>>

(* a handler without the finally block: loading stays set after a failure *)
ReceiveErrorKeepsLoading ==
    /\ pc = "fetching"
    /\ \E kind \in FailureKinds : error' = kind
    /\ progress' = ""
    /\ result' = Rejected
    /\ pc' = "failed"
    /\ LocalsReset
    /\ UNCHANGED <<frontier, stats, clock, server, policy, pageSize, cache, activities,
                   loading, requests, cycle, committed>>

(* fetchPage 141-164 throws, fetchAllActivities rejects and its locals are  *)
(* gone; handleGetData 33-38                                               *)
ReceiveError ==
    /\ pc = "fetching"
    /\ \E kind \in FailureKinds : error' = kind
    /\ progress' = ""
    /\ loading' = FALSE
    /\ result' = Rejected
    /\ pc' = "failed"
    /\ LocalsReset
    /\ UNCHANGED <<frontier, stats, clock, server, policy, pageSize, cache, activities,
                   requests, cycle, committed>>

Bump(n) == IF n < ReqCap THEN n + 1 ELSE n

(* the end of a loop iteration at the new cursor c with p pages counted:   *)
(* lines 213-217 and 263-274, then the loop condition of line 204          *)
LoopEnd(c, p) ==
    IF Less(c, windowStart)
    THEN /\ exit' = "WINDOW_EXHAUSTED"
         /\ pc' = "merge"
         /\ UNCHANGED <<lastCursorMs, requests>>
    ELSE IF StrictEq(c, lastCursorMs)
    THEN /\ exit' = "STALLED"
         /\ pc' = "merge"
         /\ UNCHANGED <<lastCursorMs, requests>>
    ELSE /\ lastCursorMs' = c
         /\ IF p < MAX_PAGES
            THEN /\ exit' = "none"
                 /\ pc' = "fetching"
                 /\ requests' = Bump(requests)
            ELSE /\ exit' = "PAGE_CAP_REACHED"
                 /\ pc' = "merge"
                 /\ UNCHANGED requests

(* lines 209-219: an empty page *)
ReceiveEmptyPage ==
    /\ pc = "fetching"
    /\ <<>> \in ServerPages(cursor)
    /\ cursor' = Backoff(cursor)
    /\ LoopEnd(Backoff(cursor), pages)
    /\ UNCHANGED <<frontier, stats, clock, server, policy, pageSize, cache, activities, loading,
                   progress, error, cachedActivities, windowStart, windowEnd,
                   newActivities, seen, pages, result, cycle, committed>>

(* a paginator that stops at the first page without a new record *)
ReceivePageStopsAtKnown ==
    /\ pc = "fetching"
    /\ \E page \in ServerPages(cursor) \ {<<>>} :
        LET freshItems == FreshItems(page, 1, seen)
            c == NextCursor(page, cursor, lastCursorMs)
        IN  /\ newActivities' = newActivities \o freshItems
            /\ seen' = seen \cup IdsOf(freshItems)
            /\ cursor' = c
            /\ pages' = pages + 1
            /\ IF freshItems = <<>>
               THEN /\ exit' = "STALLED"
                    /\ pc' = "merge"
                    /\ UNCHANGED <<lastCursorMs, requests>>
               ELSE LoopEnd(c, pages + 1)
    /\ UNCHANGED <<frontier, stats, clock, server, policy, pageSize, cache, activities, loading,
                   progress, error, cachedActivities, windowStart, windowEnd,
                   result, cycle, committed>>

(* lines 221-275: a non-empty page *)
ReceivePage ==
    /\ pc = "fetching"
    /\ \E page \in ServerPages(cursor) \ {<<>>} :
        LET freshItems == FreshItems(page, 1, seen)
            c == NextCursor(page, cursor, lastCursorMs)
        IN  /\ newActivities' = newActivities \o freshItems
            /\ seen' = seen \cup IdsOf(freshItems)
            /\ cursor' = c
            /\ pages' = pages + 1
            /\ LoopEnd(c, pages + 1)
    /\ UNCHANGED <<frontier, stats, clock, server, policy, pageSize, cache, activities, loading,
                   progress, error, cachedActivities, windowStart, windowEnd,
                   result, cycle, committed>>

(* lines 277-310 and handleGetData 31-37: merge, filter, sort, write the   *)
(* cache, return; the popup shows the list                                 *)
Finish ==
    /\ pc = "merge"
    /\ LET inWindow == FinalList(newActivities, cachedActivities,
                                 windowStart, windowEnd)
       IN  /\ \E ok \in BOOLEAN :
                /\ cache' = writeCache(cache, inWindow, clock, ok)
                /\ committed' = IF ok THEN TRUE ELSE committed
           /\ result' = Resolved(inWindow)
           /\ activities' = inWindow
    /\ progress' = "success"
    /\ loading' = FALSE
    /\ pc' = "done"
    /\ UNCHANGED <<frontier, stats, clock, server, policy, pageSize, error, cachedActivities,
                   windowStart, windowEnd, newActivities, seen, cursor,
                   lastCursorMs, pages, exit, requests, cycle>>

(* a Clear button that is not disabled while a cycle is in flight *)
handleClearCacheAnytime ==
    /\ cache' = clearActivityCache(cache)
    /\ activities' = <<>>
    /\ progress' = "cleared"
    /\ error' = ""
    /\ committed' = FALSE
    /\ UNCHANGED <<frontier, stats, clock, server, policy, pageSize, loading, result, cycle, pc,
                   cachedActivities, windowStart, windowEnd, newActivities,
                   seen, cursor, lastCursorMs, pages, exit, requests>>

(* App.tsx 41-46, the button of 281-287 *)
handleClearCache ==
    /\ Settled
    /\ ~loading
    /\ cache' = clearActivityCache(cache)
    /\ activities' = <<>>
    /\ progress' = "cleared"
    /\ error' = ""
    /\ committed' = FALSE
    /\ pc' = "idle"
    /\ LocalsReset
    /\ requests' = 0
    /\ UNCHANGED <<frontier, stats, clock, server, policy, pageSize, loading, result, cycle>>

(* time passes between two cycles *)
Tick ==
    /\ Settled
    /\ clock < Now0 + MaxTicks * TickSec
    /\ clock' = clock + TickSec
    /\ pc' = "idle"
    /\ LocalsReset
    /\ requests' = 0
    /\ UNCHANGED <<frontier, stats, server, policy, pageSize, cache, activities, loading,
                   progress, error, result, cycle, committed>>

Next ==
    \/ StartFetch
    \/ ReceiveError
    \/ ReceiveEmptyPage
    \/ ReceivePage
    \/ Finish
    \/ handleClearCache
    \/ Tick

Spec == Init /\ [][Next]_vars

(* the popup mounted over a server of two records, one record a page *)
InitLive ==
    /\ server \in {{RA, RB}, {RU, RA}}
    /\ policy = "newest"
    /\ pageSize = 1
    /\ \E c \in {Absent, Payload(<<RA>>, 0)} : Mounted(c)
    /\ cycle = 0
    /\ frontier = NotOpen
    /\ stats = NotOpen

(* every request is answered (with a page or a failure) and a finished     *)
(* loop goes on to the merge: the awaits of handleGetData settle           *)
SpecLive ==
    /\ InitLive
    /\ [][Next]_vars
    /\ WF_vars(ReceiveError \/ ReceiveEmptyPage \/ ReceivePage)
    /\ WF_vars(Finish)

(* The histories that reach the page cap: one record whose completed value *)
(* no Date can hold, and the dense history served one record a page        *)
InitCap ==
    /\ \/ server \in {{RU, RA}, {RA, RB, RC}}
          /\ policy = "any" /\ pageSize = 1
       \/ server \in {{RHuge}, Dense, DenseTight}
          /\ policy = "newest" /\ pageSize = 1
    /\ \E c \in {Absent, Payload(<<RA>>, 0)} : Mounted(c)
    /\ cycle = MaxCycles - 1
    /\ frontier = NotOpen
    /\ stats = NotOpen

SpecCap == InitCap /\ [][Next]_vars

----------------------------------------------------------------------------
(* The frontier page: entrypoints/frontier *)

Null == 2147483645    \* the null a helper returns in place of a number

(* toNum, lines 9-12: Number(v) when it is finite.  Number(true) is 1,     *)
(* Number(null) and Number("") are 0, Number(undefined) is NaN.            *)
toNum(v) ==
    IF v.k \in {"number", "numstr", "boolean"} THEN v.v
    ELSE IF v.k \in {"null", "empty"} THEN 0
    ELSE Null

(* getReps, lines 14-17: obj?.repetitions ?? obj?.repetition *)
getReps(obj) ==
    IF obj.id = Null THEN Null
    ELSE toNum(IF obj.repetitions.k \in {"absent", "null"}
               THEN obj.repetition ELSE obj.repetitions)

(* median, lines 19-24, counted in halves: twice the median of arr *)
median(arr) ==
    LET n == Len(arr)
        \* [...arr].sort((a, b) => a - b)
        place == {<<Cardinality({j \in 1..n : arr[j] < arr[i] \/ (arr[j] = arr[i] /\ j < i)}) + 1, i>> :
                      i \in 1..n}
        s == [k \in 1..n |-> arr[(CHOOSE p \in place : p[1] = k)[2]]]
        m == n \div 2
    IN  IF n = 0 THEN Null
        ELSE IF n % 2 = 1 THEN 2 * s[m + 1] ELSE s[m] + s[m + 1]

(* Math.min(...repVals), line 83 *)
MinRep(arr) ==
    IF Len(arr) = 0 THEN Null
    ELSE CHOOSE x \in {arr[i] : i \in 1..Len(arr)} :
             \A i \in 1..Len(arr) : x <= arr[i]

(* a frontier test that takes every truthy value *)
isFrontierTruthy(t) ==
    \/ t.frontier.k \in {"number", "boolean"} /\ t.frontier.v # 0
    \/ t.frontier.k \in {"numstr", "garbage"}

(* isFrontier, lines 30-32: frontier === 1 || === true || === "1" *)
isFrontier(t) ==
    t.frontier \in {Raw("number", 1), Raw("boolean", 1), Raw("numstr", 1)}

(* byId.get(id) || null, lines 54 and 77: the last topic with that id, or  *)
(* the null, a record whose id is Null                                     *)
byId(graph, id) ==
    LET at == {i \in 1..Len(graph) : graph[i].id = id}
    IN  IF at = {} THEN [id |-> Null]
        ELSE graph[CHOOSE i \in at : \A j \in at : j <= i]

(* lines 90-92, counted in quarters: four times (median + min) / 2 *)
sortKey(med, min) ==
    IF med = Null \/ min = Null THEN NegInfinity ELSE med + 2 * min

(* lines 75-94: one enriched record *)
Enrich(graph, t) ==
    LET prereqIds == IF t.prerequisites.k = "array" THEN t.prerequisites.ids ELSE <<>>
        prereqTopics == [i \in 1..Len(prereqIds) |-> byId(graph, prereqIds[i])]
        reps == [i \in 1..Len(prereqIds) |-> getReps(prereqTopics[i])]
        NotNull(v) == v # Null
        repVals == SelectSeq(reps, NotNull)
    IN  [topic |-> t, prereqIds |-> prereqIds, repVals |-> repVals,
         min |-> MinRep(repVals), median |-> median(repVals),
         sortKey |-> sortKey(median(repVals), MinRep(repVals))]

(* a comparator that orders by ascending sortKey *)
compareKeysAscending(a, b) ==
    IF a.sortKey = b.sortKey THEN 0 ELSE IF a.sortKey > b.sortKey THEN 1 ELSE -1

(* line 98: (a, b) => b.sortKey - a.sortKey, by sign; the NaN of two       *)
(* minus infinities counts as 0                                            *)
compareKeys(a, b) ==
    IF a.sortKey = b.sortKey THEN 0 ELSE IF b.sortKey > a.sortKey THEN 1 ELSE -1

(* line 98: enriched.sort(...), a stable sort *)
sortEnriched(items) ==
    LET n == Len(items)
        Precedes(j, i) ==
            LET c == compareKeys(items[j], items[i]) IN c < 0 \/ (c = 0 /\ j < i)
        place == {<<Cardinality({j \in 1..n : Precedes(j, i)}) + 1, i>> : i \in 1..n}
    IN  [k \in 1..n |-> items[(CHOOSE p \in place : p[1] = k)[2]]]

(* fetchFrontierTopics, lines 51-100, on the topics of the response in the *)
(* order of Object.values                                                  *)
fetchFrontierTopics(graph) ==
    LET frontierTopics == SelectSeq(graph, isFrontier)
    IN  sortEnriched([i \in 1..Len(frontierTopics) |->
                          Enrich(graph, frontierTopics[i])])

(* a topic of the knowledge-graph response *)
Topic(id, fr, prereqs, reps, rep) ==
    [id |-> id, frontier |-> fr, prerequisites |-> prereqs,
     repetitions |-> reps, repetition |-> rep]

NoValue == Raw("absent", 0)

(* the topics a response is made of: every encoding of frontier, lists of  *)
(* prerequisites with a missing id, repetitions as number, string, null,   *)
(* empty string and text                                                   *)
TopicPool ==
    LET Prereqs(ids) == [k |-> "array", ids |-> ids]
        NoPrereqs == [k |-> "absent", ids |-> <<>>]
    IN  {Topic(1, Raw("number", 0), NoPrereqs, Raw("number", 4), NoValue),
         Topic(2, NoValue, NoPrereqs, Raw("numstr", 1), NoValue),
         Topic(3, Raw("garbage", 0), NoPrereqs, Raw("garbage", 0), NoValue),
         Topic(4, Raw("number", 1), Prereqs(<<1, 2>>), Raw("number", 2), NoValue),
         Topic(5, Raw("boolean", 1), Prereqs(<<3, 11>>), Raw("null", 0), Raw("number", 6)),
         Topic(6, Raw("numstr", 1), NoPrereqs, NoValue, NoValue),
         Topic(7, Raw("number", 1), Prereqs(<<9>>), Raw("number", 9), NoValue),
         Topic(8, Raw("number", 2), Prereqs(<<1>>), Raw("empty", 0), NoValue),
         Topic(9, Raw("boolean", 0), Prereqs(<<2>>), Raw("number", 0), NoValue),
         Topic(10, Raw("number", 1), Prereqs(<<5, 4, 1>>), NoValue, NoValue)}

(* Object.values(data.topics): integer keys come out in ascending order *)
ObjectValues(S) ==
    [k \in 1..Cardinality(S) |->
        CHOOSE t \in S : Cardinality({u \in S : u.id < t.id}) = k - 1]

(* what the content script of the Math Academy tab answers *)
Lookup(kind, studentId, courseId, err, host) ==
    [kind |-> kind, studentId |-> studentId, courseId |-> courseId,
     error |-> err, host |-> host]

Lookups ==
    {Lookup("no-tab", 0, 0, "", ""),
     Lookup("throws", 0, 0, "Receiving end does not exist", ""),
     Lookup("throws", 0, 0, "timeout", "")}
    \cup {Lookup("response", s, c, e, h) :
              s \in {0, 7}, c \in {0, 3}, e \in {"", "not logged in"},
              h \in {"www.mathacademy.com", "app.mathacademy.com"}}

IdsFailure(msg) == [studentId |-> 0, courseId |-> 0, hostname |-> "", error |-> msg]

(* getMathAcademyIds, lines 36-96, for the one tab that is asked; a null   *)
(* id is 0 and a null hostname "", as falsy as the null                    *)
getMathAcademyIds(l) ==
    IF l.kind = "no-tab"
    THEN IdsFailure("No Math Academy tab found. Please open Math Academy first.")
    ELSE IF l.kind = "throws"
    THEN IdsFailure(IF l.error = "Receiving end does not exist"
                    THEN "Could not connect to Math Academy page."
                    ELSE l.error)
    ELSE IF l.studentId # 0 \/ l.courseId # 0
    THEN [studentId |-> l.studentId, courseId |-> l.courseId, error |-> l.error,
          hostname |-> IF l.host \in {"mathacademy.com", "www.mathacademy.com"}
                       THEN l.host ELSE "mathacademy.com"]
    ELSE IdsFailure("Could not get IDs from any Math Academy tab")

(* a precondition that looks at the reported error only *)
IdsBadErrorOnly(ids) == ids.error # ""

(* FrontierPage.tsx line 27 *)
IdsBad(ids) ==
    ids.error # "" \/ ids.studentId = 0 \/ ids.courseId = 0 \/ ids.hostname = ""

(* FrontierPage.tsx 8-20: the page mounted and loadTopics started *)
FrontierMounted ==
    [pc |-> "lookup", loading |-> TRUE, error |-> "", topics |-> <<>>,
     called |-> FALSE, ids |-> IdsFailure(""), graph |-> <<>>,
     sendErrors |-> <<>>, answered |-> FALSE, waited |-> 0]

(* sendMessageWithRetry, lines 14-15: the default arguments *)
maxRetries == 3
delayMs == 200

(* the page after getMathAcademyIds returned ids: FrontierPage.tsx 22-34   *)
(* and 39-46                                                               *)
AfterLookup(f, ids) ==
    IF IdsBad(ids)
    THEN [f EXCEPT !.pc = "error", !.loading = FALSE, !.ids = ids,
              !.error = IF ids.error # "" THEN ids.error
                        ELSE "Could not find studentId or courseId."]
    ELSE [f EXCEPT !.pc = "fetching", !.called = TRUE, !.ids = ids]

(* a retry loop that also waits after its last attempt *)
SendFailsAlwaysWaits ==
    /\ frontier.pc = "lookup"
    /\ Len(frontier.sendErrors) < maxRetries
    /\ \E l \in Lookups :
        /\ l.kind = "throws"
        /\ LET f == [frontier EXCEPT !.sendErrors = Append(@, l.error),
                                     !.waited = @ + delayMs]
           IN  frontier' =
                   IF Len(frontier.sendErrors) = maxRetries - 1
                   THEN AfterLookup(f, getMathAcademyIds(l))
                   ELSE f
    /\ UNCHANGED <<popupVars, stats>>

(* sendMessageWithRetry, lines 17-28: browser.tabs.sendMessage threw; the  *)
(* last attempt rethrows and getMathAcademyIds 71-94 reports the error     *)
SendFails ==
    /\ frontier.pc = "lookup"
    /\ Len(frontier.sendErrors) < maxRetries
    /\ \E l \in Lookups :
        /\ l.kind = "throws"
        /\ LET f == [frontier EXCEPT !.sendErrors = Append(@, l.error)]
           IN  frontier' =
                   IF Len(frontier.sendErrors) = maxRetries - 1
                   THEN AfterLookup(f, getMathAcademyIds(l))
                   ELSE [f EXCEPT !.waited = @ + delayMs]
    /\ UNCHANGED <<popupVars, stats>>

(* getMathAcademyIds 39-45 found no tab, or sendMessageWithRetry 19-20      *)
(* returned the response of the content script                             *)
IdsReturned ==
    /\ frontier.pc = "lookup"
    /\ \E l \in Lookups :
        /\ l.kind # "throws"
        /\ l.kind = "no-tab" => frontier.sendErrors = <<>>
        /\ frontier' = AfterLookup([frontier EXCEPT !.answered = (l.kind = "response")],
                                   getMathAcademyIds(l))
    /\ UNCHANGED <<popupVars, stats>>

(* FrontierPage.tsx 34-37 and 44-46: fetchFrontierTopics resolved *)
GraphReturned ==
    /\ frontier.pc = "fetching"
    /\ \E S \in SUBSET TopicPool :
        LET graph == ObjectValues(S) IN
        frontier' = [frontier EXCEPT !.pc = "done", !.loading = FALSE,
                         !.graph = graph, !.topics = fetchFrontierTopics(graph)]
    /\ UNCHANGED <<popupVars, stats>>

(* fetchFrontierTopics 42-49 threw; FrontierPage.tsx 38-46 *)
GraphFailed ==
    /\ frontier.pc = "fetching"
    /\ \E kind \in {"network", "http"} :
        frontier' = [frontier EXCEPT !.pc = "error", !.loading = FALSE,
                         !.error = kind]
    /\ UNCHANGED <<popupVars, stats>>

NextFrontier ==
    \/ SendFails
    \/ IdsReturned
    \/ GraphReturned
    \/ GraphFailed

(* the popup idle on an empty history while another page is open *)
PopupIdle ==
    /\ server = {}
    /\ policy = "newest"
    /\ pageSize = 1
    /\ Mounted(Absent)
    /\ cycle = 0

InitFrontier ==
    /\ PopupIdle
    /\ frontier = FrontierMounted
    /\ stats = NotOpen

SpecFrontier == InitFrontier /\ [][NextFrontier]_vars

----------------------------------------------------------------------------
(* The overview page: the statistics of types/mathacademy.ts and the       *)
(* rolling attainment series of the chart data                             *)

(* a string is the sequence of its characters *)
(* String.prototype.toLowerCase *)
toLowerCase(s) ==
    LET UpperCase ==
            <<"A", "B", "C", "D", "E", "F", "G", "H", "I", "J", "K", "L", "M",
              "N", "O", "P", "Q", "R", "S", "T", "U", "V", "W", "X", "Y", "Z">>
        LowerCase ==
            <<"a", "b", "c", "d", "e", "f", "g", "h", "i", "j", "k", "l", "m",
              "n", "o", "p", "q", "r", "s", "t", "u", "v", "w", "x", "y", "z">>
    IN  [i \in 1..Len(s) |->
            IF \E k \in 1..26 : UpperCase[k] = s[i]
            THEN LowerCase[CHOOSE k \in 1..26 : UpperCase[k] = s[i]]
            ELSE s[i]]

(* String.prototype.includes *)
includes(s, sub) ==
    \E i \in 0..(Len(s) - Len(sub)) : SubSeq(s, i + 1, i + Len(sub)) = sub

(* the string literals of isQuiz and calculateActivityCounts *)
QUIZ ==
    <<"q", "u", "i", "z">>
LESSON ==
    <<"l", "e", "s", "s", "o", "n">>
REVIEW ==
    <<"r", "e", "v", "i", "e", "w">>
MULTISTEP ==
    <<"m", "u", "l", "t", "i", "s", "t", "e", "p">>

(* the five types of isDiagnostic and of the first case group of the       *)
(* switch: diagnostic, assessment, supplemental diagnostic, placement,     *)
(* supplemental                                                            *)
DiagnosticTypes ==
    LET supplemental == <<"s", "u", "p", "p", "l", "e", "m", "e", "n", "t", "a", "l">>
        diagnostic == <<"d", "i", "a", "g", "n", "o", "s", "t", "i", "c">>
    IN  {diagnostic,
         <<"a", "s", "s", "e", "s", "s", "m", "e", "n", "t">>,
         supplemental \o <<" ">> \o diagnostic,
         <<"p", "l", "a", "c", "e", "m", "e", "n", "t">>,
         supplemental}

(* the fields of an Activity the statistics read; day is the local date    *)
(* of completed, counted in days                                           *)
Task(type, name, points, pointsAwarded, day) ==
    [type |-> type, name |-> name, points |-> points,
     pointsAwarded |-> pointsAwarded, day |-> day]

(* x || d: 0, NaN and the absent value give the default *)
OrDefault(x, d) == IF x = 0 \/ x = Undefined \/ x = NaN THEN d ELSE x

(* Math.round(n / d) for d > 0: the nearest integer, a half goes up *)
MathRound(n, d) == (2 * n + d) \div (2 * d)

(* isDiagnostic, lines 139-151 *)
isDiagnostic(activity) ==
    LET type == toLowerCase(activity.type)
        taskName == activity.name
        isQuizName == includes(toLowerCase(taskName), QUIZ)
    IN  /\ ~isQuizName
        /\ type \in DiagnosticTypes

(* isQuiz, lines 156-159 *)
isQuiz(activity) == includes(toLowerCase(activity.name), QUIZ)

(* lines 186-194: the possible XP of one activity *)
possibleXP(activity) ==
    IF isDiagnostic(activity) THEN OrDefault(activity.pointsAwarded, 0)
    ELSE OrDefault(activity.points, 10)

(* groupActivitiesByDay, lines 167-199: one forEach step on the groups     *)
(* gathered so far, a function from the day to its DailyData               *)
addToDay(groups, activity) ==
    LET dateKey == activity.day
        old == IF dateKey \in DOMAIN groups THEN groups[dateKey]
               ELSE [date |-> dateKey, xp |-> 0, count |-> 0,
                     totalPossible |-> 0, totalEarned |-> 0]
        new == [old EXCEPT !.xp = @ + OrDefault(activity.pointsAwarded, 0),
                           !.count = @ + 1,
                           !.totalPossible = @ + possibleXP(activity),
                           !.totalEarned = @ + OrDefault(activity.pointsAwarded, 0)]
    IN  [d \in DOMAIN groups \cup {dateKey} |->
            IF d = dateKey THEN new ELSE groups[d]]

RECURSIVE groupFrom(_, _, _)
groupFrom(acts, i, groups) ==
    IF i > Len(acts) THEN groups
    ELSE groupFrom(acts, i + 1, addToDay(groups, acts[i]))

(* groupActivitiesByDay, lines 164-203; the days of the result are read in *)
(* ascending order                                                         *)
groupActivitiesByDay(acts) == groupFrom(acts, 1, <<>>)

RECURSIVE SumOver(_, _)
SumOver(f, S) ==
    IF S = {} THEN 0
    ELSE LET x == CHOOSE y \in S : TRUE IN f[x] + SumOver(f, S \ {x})

(* calculateXPAttainment, lines 237-253, in tenths of a percent *)
calculateXPAttainment(acts) ==
    LET idx == 1..Len(acts)
        totalEarned == SumOver([i \in idx |-> OrDefault(acts[i].pointsAwarded, 0)], idx)
        totalPossible == SumOver([i \in idx |-> possibleXP(acts[i])], idx)
    IN  [totalEarned |-> totalEarned, totalPossible |-> totalPossible,
         value |-> IF totalPossible > 0
                   THEN MathRound(1000 * totalEarned, totalPossible) ELSE 0]

(* today, the last day of every chart *)
Today == 8

(* getSuccessRateOverTimeData, lines 197-239: one point per day from the   *)
(* first day with an activity to today, over the 7 days that end there     *)
getSuccessRateOverTimeData(acts) ==
    IF Len(acts) = 0
    THEN [i \in 1..2 |-> [totalEarned |-> 0, totalPossible |-> 0, value |-> 0]]
    ELSE
    LET dailyData == groupActivitiesByDay(acts)
        firstDate == CHOOSE d \in DOMAIN dailyData : \A e \in DOMAIN dailyData : d <= e
        n == Today - firstDate + 1
        Window(i) == {d \in DOMAIN dailyData :
                         /\ d - firstDate + 1 >= (IF i - 6 > 1 THEN i - 6 ELSE 1)
                         /\ d - firstDate + 1 <= i}
        Earned(i) == SumOver([d \in Window(i) |-> dailyData[d].totalEarned], Window(i))
        Possible(i) == SumOver([d \in Window(i) |-> dailyData[d].totalPossible], Window(i))
    IN  [i \in 1..n |->
            [totalEarned |-> Earned(i), totalPossible |-> Possible(i),
             value |-> IF Possible(i) > 0
                       THEN MathRound(100 * Earned(i), Possible(i)) ELSE 0]]

(* a classification that looks at the type before the test name *)
counterOfTypeFirst(activity) ==
    LET type == toLowerCase(activity.type) IN
    IF type \in DiagnosticTypes THEN "diagnostics"
    ELSE IF type = LESSON THEN "lessons"
    ELSE IF type = REVIEW THEN "reviews"
    ELSE IF type = MULTISTEP THEN "multisteps"
    ELSE IF type = QUIZ \/ isQuiz(activity) THEN "quizzes"
    ELSE "none"

(* calculateActivityCounts, lines 267-298: the counter one activity bumps  *)
counterOf(activity) ==
    LET type == toLowerCase(activity.type) IN
    IF isQuiz(activity) THEN "quizzes"
    ELSE IF type \in DiagnosticTypes THEN "diagnostics"
    ELSE IF type = LESSON THEN "lessons"
    ELSE IF type = REVIEW THEN "reviews"
    ELSE IF type = MULTISTEP THEN "multisteps"
    ELSE IF type = QUIZ THEN "quizzes"
    ELSE "none"

Counters == {"diagnostics", "lessons", "reviews", "multisteps", "quizzes"}

RECURSIVE countFrom(_, _, _)
countFrom(acts, i, counts) ==
    IF i > Len(acts) THEN counts
    ELSE LET c == counterOf(acts[i])
         IN  countFrom(acts, i + 1,
                       IF c = "none" THEN counts
                       ELSE [counts EXCEPT ![c] = @ + 1])

(* calculateActivityCounts, lines 258-302 *)
calculateActivityCounts(acts) ==
    countFrom(acts, 1, [c \in Counters |-> 0])

(* activities of the cached list: types in another case and an unknown     *)
(* type, test names with and without the word, points absent and zero,     *)
(* more XP awarded than the points                                         *)
Tasks ==
    LET NoName == <<>>
        Final == <<"F", "i", "n", "a", "l">>
        placement == <<"p", "l", "a", "c", "e", "m", "e", "n", "t">>
        assessment == <<"a", "s", "s", "e", "s", "s", "m", "e", "n", "t">>
        supplementalDiagnostic ==
            <<"s", "u", "p", "p", "l", "e", "m", "e", "n", "t", "a", "l", " ",
              "d", "i", "a", "g", "n", "o", "s", "t", "i", "c">>
    IN  {Task(LESSON, NoName, 10, 10, 0),
         Task(LESSON, NoName, 10, 12, 8),
         Task(LESSON, <<"q", "u", "i", "z", " ", "2">>, 10, 10, 0),
         Task(LESSON, NoName, 0, 0, 0),
         Task(<<"R", "e", "v", "i", "e", "w">>, Final, 5, 0, 1),
         Task(<<"D", "i", "a", "g", "n", "o", "s", "t", "i", "c">>, NoName, Undefined, 7, 1),
         Task(placement, <<"U", "n", "i", "t", " ", "Q", "u", "i", "z">>, 10, 5, 8),
         Task(supplementalDiagnostic, NoName, 10, 0, 0),
         Task(<<"e", "x", "a", "m">>, NoName, Undefined, Undefined, 1),
         Task(MULTISTEP, NoName, 10, 9, 8),
         Task(QUIZ, NoName, 15, 11, 1),
         Task(assessment, Final, 20, 20, 8)}

MaxActs == 2

(* OverviewPage.tsx: the page mounted, the list not read yet *)
StatsMounted ==
    [pc |-> "collecting", activities |-> <<>>, daily |-> <<>>,
     attainment |-> [totalEarned |-> 0, totalPossible |-> 0, value |-> 0],
     rolling |-> <<>>, counts |-> [c \in Counters |-> 0]]

(* one more activity in the list the page reads *)
AddActivity ==
    /\ stats.pc = "collecting"
    /\ Len(stats.activities) < MaxActs
    /\ \E a \in Tasks :
           stats' = [stats EXCEPT !.activities = Append(@, a)]
    /\ UNCHANGED <<popupVars, frontier>>

(* OverviewPage.tsx 278-293: the statistics of the list *)
ComputeStats ==
    /\ stats.pc = "collecting"
    /\ stats' = [stats EXCEPT
                    !.pc = "computed",
                    !.daily = groupActivitiesByDay(stats.activities),
                    !.attainment = calculateXPAttainment(stats.activities),
                    !.rolling = getSuccessRateOverTimeData(stats.activities),
                    !.counts = calculateActivityCounts(stats.activities)]
    /\ UNCHANGED <<popupVars, frontier>>

NextStats ==
    \/ AddActivity
    \/ ComputeStats

InitStats ==
    /\ PopupIdle
    /\ frontier = NotOpen
    /\ stats = StatsMounted

SpecStats == InitStats /\ [][NextStats]_vars

----------------------------------------------------------------------------
(* The charts of the overview page and the course table of the popup.      *)
(* Times of this part are counted in minutes of the local clock: minute    *)
(* 1440 * d is the local midnight that starts day d.                       *)

(* toLocalDateString, lines 129-134: the local calendar day of a Date; an  *)
(* Invalid Date gives the key "NaN-NaN-NaN"                                *)
toLocalDateString(date) == IF date = NaN THEN NaN ELSE date \div 1440

(* activities of the stored list: two courses and an activity without a    *)
(* course, a duration of zero and one of three hours, a completed field    *)
(* that does not parse, an activity older than a week                      *)
ChartTasks ==
    LET Stored(course, pointsAwarded, started, completed) ==
            Task(LESSON, <<>>, 10, pointsAwarded, toLocalDateString(completed))
                @@ [course |-> course, started |-> started, completed |-> completed]
    IN  {Stored("MF I", 10, 1440 + 590, 1440 + 600),
         Stored("", 5, 1440 * 6 + 720, 1440 * 6 + 720),
         Stored("MF II", 15, 1440 * 7 + 590, 1440 * 7 + 600),
         Stored("MF I", 20, 1440 * Today - 120, 1440 * Today + 60),
         Stored("MF II", 7, 1440 * 7, NaN)}

(* getCourseTransitions, lines 333-335: the orders the sort can leave the  *)
(* copy in.  The comparator subtracts the times; Array.prototype.sort is   *)
(* stable, so with every time a number there is one result.  With an       *)
(* Invalid Date in the list the comparator returns NaN, it is not a        *)
(* consistent ordering and the result is any arrangement of the elements.  *)
sortByCompleted(acts) ==
    LET n == Len(acts)
        Before(j, i) == \/ acts[j].completed < acts[i].completed
                        \/ acts[j].completed = acts[i].completed /\ j < i
        Place(i) == Cardinality({j \in 1..n : Before(j, i)}) + 1
    IN  IF \E i \in 1..n : acts[i].completed = NaN
        THEN {[i \in 1..n |-> acts[p[i]]] : p \in Permutations(1..n)}
        ELSE {[k \in 1..n |-> acts[CHOOSE i \in 1..n : Place(i) = k]]}

(* a walk that takes the course of every activity, of one without a course *)
(* too, as the current course                                              *)
transitionStepAlwaysMoves(walk, activity) ==
    LET courseName == IF activity.course = "" THEN "Unknown" ELSE activity.course
        currentCourse == walk.currentCourse
    IN  IF courseName # currentCourse /\ courseName # "Unknown"
           /\ currentCourse # "Unknown"
        THEN [currentCourse |-> courseName,
              transitions |-> Append(walk.transitions,
                  [timestamp |-> activity.completed,
                   fromCourse |-> currentCourse, toCourse |-> courseName])]
        ELSE [walk EXCEPT !.currentCourse = courseName]

(* getCourseTransitions, lines 341-355: the body of the loop *)
transitionStep(walk, activity) ==
    LET courseName == IF activity.course = "" THEN "Unknown" ELSE activity.course
        currentCourse == walk.currentCourse
    IN  IF courseName # currentCourse /\ courseName # "Unknown"
           /\ currentCourse # "Unknown"
        THEN [currentCourse |-> courseName,
              transitions |-> Append(walk.transitions,
                  [timestamp |-> activity.completed,
                   fromCourse |-> currentCourse, toCourse |-> courseName])]
        ELSE IF courseName # "Unknown"
        THEN [walk EXCEPT !.currentCourse = courseName]
        ELSE walk

RECURSIVE walkFrom(_, _, _)
walkFrom(sortedActivities, i, walk) ==
    IF i > Len(sortedActivities) THEN walk
    ELSE walkFrom(sortedActivities, i + 1,
                  transitionStep(walk, sortedActivities[i]))

(* getCourseTransitions, lines 330-359, on the sorted copy *)
getCourseTransitions(sortedActivities) ==
    IF Len(sortedActivities) = 0 THEN <<>>
    ELSE walkFrom(sortedActivities, 2,
             [currentCourse |-> IF sortedActivities[1].course = "" THEN "Unknown"
                                ELSE sortedActivities[1].course,
              transitions |-> <<>>]).transitions

(* filterActivitiesByPeriod, lines 169-222, for the periods counted in     *)
(* days; an Invalid Date compares false with every date                    *)
filterActivitiesByPeriod(acts, period) ==
    LET today == 1440 * Today
        startDate == IF period = "the past 7 days" THEN today - 1440 * 6
                     ELSE today - 1440 * 29
        Kept(activity) == activity.completed # NaN /\ activity.completed >= startDate
    IN  IF period = "all time" THEN acts ELSE SelectSeq(acts, Kept)

(* getChartDateRange, lines 16-32: first is dailyData[0].date, and         *)
(* new Date of a date-only string is the midnight of that day in UTC,      *)
(* which the local clock of a zone tz minutes ahead of UTC shows as        *)
(* 1440 * first + tz                                                       *)
getChartDateRange(acts, tz, first) ==
    LET today == 1440 * Today
    IN  IF Len(acts) = 0 THEN [firstDate |-> today, lastDate |-> today]
        ELSE [firstDate |-> IF first = NaN THEN NaN ELSE 1440 * first + tz,
              lastDate |-> today]

(* generateDateRange, lines 37-49: the dates of the loop; an Invalid Date  *)
(* is not <= lastDate and the loop body never runs                         *)
generateDateRange(firstDate, lastDate) ==
    IF firstDate = NaN \/ firstDate > lastDate THEN <<>>
    ELSE [i \in 1..((lastDate - firstDate) \div 1440 + 1) |->
             firstDate + 1440 * (i - 1)]

(* getCumulativeXPData, lines 55-84 *)
getCumulativeXPData(acts, tz, first) ==
    LET range == getChartDateRange(acts, tz, first)
        dailyData == groupActivitiesByDay(acts)
        dates == generateDateRange(range.firstDate, range.lastDate)
        dayXP(i) == LET key == toLocalDateString(dates[i])
                    IN  IF key \in DOMAIN dailyData
                        THEN OrDefault(dailyData[key].xp, 0) ELSE 0
        idx == 1..Len(dates)
    IN  IF Len(acts) = 0
        THEN <<[timestamp |-> range.firstDate, value |-> 0],
               [timestamp |-> range.lastDate, value |-> 0]>>
        ELSE [i \in idx |->
                 [timestamp |-> dates[i],
                  value |-> SumOver([j \in 1..i |-> dayXP(j)], 1..i)]]

(* getCumulativeActivitiesData, lines 90-119 *)
getCumulativeActivitiesData(acts, tz, first) ==
    LET range == getChartDateRange(acts, tz, first)
        dailyData == groupActivitiesByDay(acts)
        dates == generateDateRange(range.firstDate, range.lastDate)
        dayCount(i) == LET key == toLocalDateString(dates[i])
                       IN  IF key \in DOMAIN dailyData
                           THEN OrDefault(dailyData[key].count, 0) ELSE 0
        idx == 1..Len(dates)
    IN  IF Len(acts) = 0
        THEN <<[timestamp |-> range.firstDate, value |-> 0],
               [timestamp |-> range.lastDate, value |-> 0]>>
        ELSE [i \in idx |->
                 [timestamp |-> dates[i],
                  value |-> SumOver([j \in 1..i |-> dayCount(j)], 1..i)]]

(* the thresholds of the course table, in hundredths of an XP per minute *)
Thresholds == {75, 100, 125, 150, 175, 200}

(* a table that keeps the activities of more than two hours *)
generateStatsKeepsLong(acts) ==
    LET durationMinutes(activity) == activity.completed - activity.started
        Qualifies(activity) == durationMinutes(activity) > 0
        remaining == SelectSeq(acts, Qualifies)
        Of(c) == {i \in 1..Len(remaining) : remaining[i].course = c}
        Meets(i, th) ==
            100 * remaining[i].pointsAwarded >= th * durationMinutes(remaining[i])
    IN  [c \in {remaining[i].course : i \in 1..Len(remaining)} |->
            [courseName |-> c,
             activityCount |-> Cardinality(Of(c)),
             thresholdPercentages |->
                 [th \in Thresholds |->
                     MathRound(1000 * Cardinality({i \in Of(c) : Meets(i, th)}),
                               Cardinality(Of(c)))]]]

(* generateStats of popup/stats.ts, whose file is not among the sources:   *)
(* the course table as the specification describes it, without the         *)
(* percentiles.  An activity stays when its duration is above 0 and at     *)
(* most 120 minutes; a course's percentage for a threshold, in tenths of a *)
(* percent, counts the remaining activities with pointsAwarded /           *)
(* durationMinutes >= threshold.                                           *)
generateStats(acts) ==
    LET durationMinutes(activity) == activity.completed - activity.started
        Qualifies(activity) ==
            durationMinutes(activity) > 0 /\ durationMinutes(activity) <= 120
        remaining == SelectSeq(acts, Qualifies)
        Of(c) == {i \in 1..Len(remaining) : remaining[i].course = c}
        Meets(i, th) ==
            100 * remaining[i].pointsAwarded >= th * durationMinutes(remaining[i])
    IN  [c \in {remaining[i].course : i \in 1..Len(remaining)} |->
            [courseName |-> c,
             activityCount |-> Cardinality(Of(c)),
             thresholdPercentages |->
                 [th \in Thresholds |->
                     MathRound(1000 * Cardinality({i \in Of(c) : Meets(i, th)}),
                               Cardinality(Of(c)))]]]

MaxChartActs == 4

(* OverviewPage.tsx 278: the transitions of the list *)
ComputeTransitions ==
    /\ stats.pc = "input"
    /\ \E sortedActivities \in sortByCompleted(stats.activities) :
           stats' = [pc |-> "transitions",
                     activities |-> stats.activities,
                     sortedActivities |-> sortedActivities,
                     transitions |-> getCourseTransitions(sortedActivities)]
    /\ UNCHANGED <<popupVars, frontier>>

(* OverviewPage.tsx 271-282: the list of the selected period and its       *)
(* cumulative series, in a zone tz minutes ahead of UTC.  The sort of      *)
(* groupActivitiesByDay (lines 200-202) compares the days by their time:   *)
(* it leaves the earliest day first, or any day when one of the keys is    *)
(* that of an Invalid Date.                                                *)
ComputeCharts ==
    /\ stats.pc = "input"
    /\ \E tz \in {-480, 0, 120}, period \in {"all time", "the past 7 days"} :
         LET filteredActivities == filterActivitiesByPeriod(stats.activities, period)
             dailyData == groupActivitiesByDay(filteredActivities)
             days == DOMAIN dailyData
             firstDays == IF days = {} THEN {Today}
                          ELSE IF NaN \in days THEN days
                          ELSE {d \in days : \A e \in days : d <= e}
         IN  \E first \in firstDays :
                 stats' = [pc |-> "charts",
                           activities |-> stats.activities,
                           tz |-> tz,
                           period |-> period,
                           filteredActivities |-> filteredActivities,
                           dailyData |-> dailyData,
                           cumulativeXPData |->
                               getCumulativeXPData(filteredActivities, tz, first),
                           cumulativeActivitiesData |->
                               getCumulativeActivitiesData(filteredActivities, tz, first)]
    /\ UNCHANGED <<popupVars, frontier>>

(* App.tsx 64-68: the course table of a list whose times all parse *)
GenerateStats ==
    /\ stats.pc = "input"
    /\ \A i \in 1..Len(stats.activities) : stats.activities[i].completed # NaN
    /\ stats' = [pc |-> "stats",
                 activities |-> stats.activities,
                 statsData |-> generateStats(stats.activities)]
    /\ UNCHANGED <<popupVars, frontier>>

NextCharts ==
    \/ ComputeTransitions
    \/ ComputeCharts
    \/ GenerateStats

(* every stored list of at most MaxChartActs activities *)
InitCharts ==
    /\ PopupIdle
    /\ frontier = NotOpen
    /\ stats \in {[pc |-> "input", activities |-> acts] :
                     acts \in UNION {[1..n -> ChartTasks] : n \in 0..MaxChartActs}}

SpecCharts == InitCharts /\ [][NextCharts]_vars

----------------------------------------------------------------------------
(* The CSV export of the popup.  A string is the sequence of its           *)
(* characters; a run of characters without a comma, a double quote, a line *)
(* feed or a carriage return may be written as one element.  A field value *)
(* is a string or null.                                                    *)

MaxTextLen == 2

(* the strings a name of the platform can be, up to MaxTextLen characters, *)
(* and null                                                                *)
ExportValues ==
    {[null |-> TRUE, text |-> <<>>]} \cup
    {[null |-> FALSE, text |-> t] :
        t \in UNION {[1..n -> {"a", ",", "\"", "\n", "\r"}] : n \in 0..MaxTextLen}}

(* escapeCSVField, lines 39-52 *)
escapeCSVField(value) ==
    LET stringValue == value.text
        n == Len(stringValue)
        Quotes(i) == Cardinality({j \in 1..i : stringValue[j] = "\""})
        (* stringValue.replace(/"/g, '""') *)
        replaced == [k \in 1..(n + Quotes(n)) |->
                        stringValue[CHOOSE i \in 1..n :
                                        i + Quotes(i - 1) <= k /\ k <= i + Quotes(i)]]
    IN  IF value.null THEN <<>>
        ELSE IF \/ includes(stringValue, <<",">>)
                \/ includes(stringValue, <<"\n">>)
                \/ includes(stringValue, <<"\"">>)
        THEN <<"\"">> \o replaced \o <<"\"">>
        ELSE stringValue

(* downloadCSV, lines 54-78: csvContent *)
downloadCSV(acts) ==
    LET Text(t) == [null |-> FALSE, text |-> t]
        headers == <<Text(<<"id">>), Text(<<"type">>), Text(<<"points">>),
                     Text(<<"pointsAwarded">>), Text(<<"topic.id">>),
                     Text(<<"topic.name">>), Text(<<"topic.course.id">>),
                     Text(<<"topic.course.name">>), Text(<<"started">>),
                     Text(<<"completed">>), Text(<<"test.id">>),
                     Text(<<"test.name">>), Text(<<"test.course.id">>),
                     Text(<<"test.course.name">>)>>
        row(activity) ==
            <<activity.id, activity.type, activity.points, activity.pointsAwarded,
              activity.topic.id, activity.topic.name,
              activity.topic.course.id, activity.topic.course.name,
              activity.started, activity.completed,
              activity.test.id, activity.test.name,
              activity.test.course.id, activity.test.course.name>>
        RECURSIVE join(_, _, _)
        join(parts, separator, i) ==
            IF i > Len(parts) THEN <<>>
            ELSE (IF i > 1 THEN separator ELSE <<>>) \o parts[i]
                     \o join(parts, separator, i + 1)
        line(fields) ==
            join([k \in 1..Len(fields) |-> escapeCSVField(fields[k])], <<",">>, 1)
    IN  join(<<line(headers)>> \o [r \in 1..Len(acts) |-> line(row(acts[r]))],
             <<"\n">>, 1)

(* App.tsx 54-58: the click on Download CSV; hasData guards the call *)
DownloadCSV ==
    /\ stats.pc = "export"
    /\ Len(stats.activities) > 0
    /\ stats' = [pc |-> "exported",
                 activities |-> stats.activities,
                 csvContent |-> downloadCSV(stats.activities)]
    /\ UNCHANGED <<popupVars, frontier>>

(* the lists of the popup: no activity, one activity, and one activity     *)
(* followed by a second; the names of the topic and of the test are any    *)
(* export values, the test of an activity may be missing                   *)
InitExport ==
    /\ PopupIdle
    /\ frontier = NotOpen
    /\ LET Text(t) == [null |-> FALSE, text |-> t]
           Missing == [null |-> TRUE, text |-> <<>>]
           Exported(topicName, testName) ==
               [id |-> Text(<<"7">>), type |-> Text(<<"Lesson">>),
                points |-> Text(<<"10">>), pointsAwarded |-> Text(<<"12">>),
                topic |-> [id |-> Text(<<"31">>), name |-> topicName,
                           course |-> [id |-> Text(<<"5">>), name |-> Text(<<"MF I">>)]],
                started |-> Text(<<"2024-01-05T10:00:00Z">>),
                completed |-> Text(<<"2024-01-05T10:10:00Z">>),
                test |-> [id |-> IF testName.null THEN Missing ELSE Text(<<"44">>),
                          name |-> testName,
                          course |-> [id |-> Missing, name |-> Missing]]]
           Rows == {Exported(a, b) : a \in ExportValues, b \in ExportValues}
           Plain == Exported(Text(<<"a">>), Text(<<"a">>))
       IN  stats \in {[pc |-> "export", activities |-> acts] :
                         acts \in {<<>>} \cup {<<r>> : r \in Rows}
                                         \cup {<<r, Plain>> : r \in Rows}}

SpecExport == InitExport /\ [][DownloadCSV]_vars

----------------------------------------------------------------------------
(* Properties of the fetch cycle *)

Resolvable(r) == getItemTimeMs(r) # Undefined

InsideWindow(r) ==
    /\ Resolvable(r)
    /\ getItemTimeMs(r) >= windowStart
    /\ getItemTimeMs(r) <= windowEnd

HasId(s, id) == \E i \in 1..Len(s) : s[i].id = id

(* C1: a cycle that resolves without reaching the page cap, against an     *)
(* endpoint that answers every request with the newest records completed   *)
(* at or before the cursor, returns every record of the server that lies   *)
(* inside the window (fetched or from the cache).                          *)
C1_Completeness ==
    (pc = "done" /\ policy = "newest" /\ exit # "PAGE_CAP_REACHED")
        => \A r \in server : InsideWindow(r) => HasId(result.value, r.id)

NoDuplicateIds(s) ==
    \A i, j \in 1..Len(s) : (i # j /\ s[i].id # NoId) => s[i].id # s[j].id

(* C2: the list a cycle returns and the list it writes to the cache hold   *)
(* no two elements with the same (numeric) id.                             *)
C2_NoDuplicateIds ==
    /\ pc = "done" => NoDuplicateIds(result.value)
    /\ committed => NoDuplicateIds(readCache(cache))

C2_Witness ==
    /\ pc = "done"
    /\ committed
    /\ Len(result.value) >= 2
    /\ Len(newActivities) >= 1
    /\ ~NoDuplicateIds(cachedActivities)

(* C3: a record of the merged list is in the final list exactly when its   *)
(* completed time is unresolvable or lies within the window.               *)
C3_WindowFilter ==
    pc = "done" =>
        \A r \in Elems(Combined(newActivities, cachedActivities)) :
            (r \in Elems(result.value)) <=> (~Resolvable(r) \/ InsideWindow(r))

C3_Witness ==
    /\ pc = "done"
    /\ \E r \in Elems(result.value) : ~Resolvable(r)
    /\ \E r \in Elems(result.value) : Resolvable(r)
    /\ \E r \in Elems(Combined(newActivities, cachedActivities)) :
           r \notin Elems(result.value)

SortedDescending(s) ==
    \A i, j \in 1..Len(s) : i < j => bestTime(s[i]) >= bestTime(s[j])

(* C4: the list fetchAllActivities returns and every list                  *)
(* getCachedActivities returns are in descending order of bestTime, the    *)
(* records without a resolvable time last.                                 *)
C4_FinalOrdering ==
    /\ pc = "done" => SortedDescending(result.value)
    /\ pc \in {"fetching", "merge", "done"} => SortedDescending(cachedActivities)
    /\ SortedDescending(activities)

C4_Witness ==
    /\ pc = "done"
    /\ Len(result.value) >= 3
    /\ \E i \in 1..Len(result.value) : ~Resolvable(result.value[i])
    /\ \E i, j \in 1..Len(result.value) :
           /\ Resolvable(result.value[i])
           /\ Resolvable(result.value[j])
           /\ bestTime(result.value[i]) # bestTime(result.value[j])
    /\ ~SortedDescending(newActivities \o cachedActivities)

(* C5: a page request that fails rejects the cycle, and no step of a cycle *)
(* that ends so writes the cache: it holds the value it held before.       *)
C5_AllOrNothing ==
    [][ /\ (pc = "fetching" \/ pc' = "fetching") => cache' = cache
        /\ (pc = "fetching" /\ pc' = "failed") =>
               /\ result'.status = "rejected"
               /\ cache' = cache
               /\ activities' = activities ]_vars

C5_Witness ==
    /\ pc = "failed"
    /\ result.status = "rejected"
    /\ requests >= 2
    /\ cache.k = "payload"
    /\ cache.items # <<>>

(* C6 as stated: after a cycle that resolves, the cache content equals the *)
(* returned list.                                                          *)
C6_CacheEqualsReturned ==
    pc = "done" => readCache(cache) = result.value

(* C6: the cache is written only by the step that ends a cycle, at most    *)
(* once, with the complete list the cycle returns; when the storage write  *)
(* fails the cache keeps the complete prior payload.                       *)
C6_AtomicOverwrite ==
    [][ /\ (pc = "fetching" \/ pc' = "fetching") => cache' = cache
        /\ pc = "merge" =>
               /\ pc' = "done"
               /\ activities' = result'.value
               /\ \/ cache' = cache
                  \/ cache'.k = "payload" /\ cache'.items = result'.value ]_vars

C6_Witness ==
    /\ pc = "done"
    /\ cache.k = "payload"
    /\ cache.items = result.value
    /\ Len(result.value) >= 2
    /\ result.value # cachedActivities
    /\ cachedActivities # <<>>

(* C7 as stated: a cycle that starts from the cache a completed cycle wrote *)
(* against the unchanged server (newest-first pages of a fixed size)       *)
(* leaves the cache with the same set of records.                          *)
C7_SameSet ==
    [][ (committed /\ policy = "newest" /\ pc = "merge" /\ pc' = "done")
            => Elems(readCache(cache')) = Elems(readCache(cache)) ]_vars

(* C7: such a cycle leaves the cache with the records the earlier cycle    *)
(* left that are still inside the window of the later one (all of them     *)
(* when the write fails): it adds none and drops only those that left the  *)
(* window.                                                                 *)
C7_SameSetInWindow ==
    [][ (committed /\ policy = "newest" /\ pc = "merge" /\ pc' = "done")
            => \/ cache' = cache
               \/ Elems(readCache(cache')) =
                      {r \in Elems(readCache(cache)) :
                           ~Resolvable(r) \/ InsideWindow(r)} ]_vars

C7_Witness ==
    /\ pc = "done"
    /\ cycle = 2
    /\ committed
    /\ policy = "newest"
    /\ HasId(cachedActivities, RC.id)
    /\ HasId(cachedActivities, REdge.id)
    /\ cache.k = "payload"
    /\ cache.updatedAt = clock
    /\ HasId(cache.items, RC.id)
    /\ ~HasId(cache.items, REdge.id)

(* C8: a fetch cycle issues a bounded number of page requests: MAX_PAGES   *)
(* non-empty pages and the one empty page that a window of three years     *)
(* leaves room for.                                                        *)
C8_BoundedIterations == requests <= MAX_PAGES + 1

(* C9: the page requests of one fetch cycle, empty pages included, never   *)
(* exceed MAX_PAGES.                                                       *)
C9_HardPageCap == requests <= MAX_PAGES

WindowExhausted == Less(cursor, windowStart)
PageCapReached == pages >= MAX_PAGES
Stalled == exit = "STALLED"

(* C10 as stated: a cycle that leaves the loop is in exactly one of the    *)
(* three terminal states.                                                  *)
C10_ExactlyOneTerminal ==
    pc \in {"merge", "done"} =>
        \/ WindowExhausted /\ ~PageCapReached /\ ~Stalled
        \/ ~WindowExhausted /\ PageCapReached /\ ~Stalled
        \/ ~WindowExhausted /\ ~PageCapReached /\ Stalled

(* C10: a cycle that leaves the loop does so with the cursor before        *)
(* WINDOW_START or with MAX_PAGES pages counted (or both, when the page    *)
(* that reaches the cap also crosses the window start); the stalled exit   *)
(* is never taken.                                                         *)
C10_TerminalStates ==
    /\ exit # "STALLED"
    /\ pc \in {"merge", "done"} =>
           /\ exit \in {"WINDOW_EXHAUSTED", "PAGE_CAP_REACHED"}
           /\ exit = "WINDOW_EXHAUSTED" => WindowExhausted
           /\ exit = "PAGE_CAP_REACHED" => (PageCapReached /\ ~WindowExhausted)
    /\ pc = "fetching" => (~WindowExhausted /\ ~PageCapReached)

C10_Witness ==
    /\ pc = "done"
    /\ exit = "PAGE_CAP_REACHED"
    /\ pages = MAX_PAGES
    /\ cursor # NaN

(* a step that handles a non-empty page none of whose records is new *)
KnownPageStep ==
    /\ pc = "fetching"
    /\ pages' = pages + 1
    /\ newActivities' = newActivities

RECURSIVE WalkRequests(_, _, _, _)
WalkRequests(c, last, p, ws) ==
    LET page == CHOOSE pg \in ServerPages(c) : TRUE
        c2 == IF page = <<>> THEN Backoff(c) ELSE NextCursor(page, c, last)
        p2 == IF page = <<>> THEN p ELSE p + 1
    IN  IF Less(c2, ws) \/ StrictEq(c2, last) \/ p2 >= MAX_PAGES
        THEN 1
        ELSE 1 + WalkRequests(c2, c2, p2, ws)

C13_SerializedWriters ==
    [][ loading =>
            /\ cycle' = cycle
            /\ cachedActivities' = cachedActivities \/ pc' # "fetching"
            /\ cache' = cache \/ (pc = "merge" /\ pc' = "done")
            /\ (pc = "merge" /\ pc' = "done") =>
                   cachedActivities = getCachedActivities(cache) ]_vars

C13_Witness ==
    /\ loading
    /\ pc = "merge"
    /\ cache.k = "payload"
    /\ cachedActivities # <<>>
    /\ newActivities # <<>>

(* the step of the Clear button *)
ClearStep == progress' = "cleared" /\ cycle' = cycle /\ clock' = clock

----------------------------------------------------------------------------
(* Properties of the frontier page *)

(* C15: the list returned by fetchFrontierTopics has exactly one entry for *)
(* every topic of the graph response whose frontier field is the number 1, *)
(* the boolean true or the string "1", and no entry for any other topic.   *)
C15_FrontierFilter ==
    frontier.pc = "done" =>
        /\ \A t \in Elems(frontier.graph) :
               Cardinality({i \in 1..Len(frontier.topics) : frontier.topics[i].topic = t})
                   = IF \/ t.frontier = Raw("number", 1)
                        \/ t.frontier = Raw("boolean", 1)
                        \/ t.frontier = Raw("numstr", 1)
                     THEN 1 ELSE 0
        /\ \A i \in 1..Len(frontier.topics) :
               frontier.topics[i].topic \in Elems(frontier.graph)

(* the response holds the three literals and the five other encodings *)
C15_Witness ==
    /\ frontier.pc = "done"
    /\ {1, 2, 3, 4, 5, 6, 8, 9} \subseteq {t.id : t \in Elems(frontier.graph)}
    /\ Len(frontier.topics) = 3

(* four times (median + min) / 2 of the finite repetition values of the    *)
(* resolved prerequisites of t, minus infinity without a value             *)
ExpectedKey(graph, t) ==
    LET ids == IF t.prerequisites.k = "array" THEN t.prerequisites.ids ELSE <<>>
        Rep(p) == IF p.repetitions.k \in {"absent", "null"} THEN p.repetition
                  ELSE p.repetitions
        Finite(v) == v.k \in {"number", "numstr", "boolean", "null", "empty"}
        at == {i \in 1..Len(ids) :
                  /\ \E p \in Elems(graph) : p.id = ids[i]
                  /\ Finite(Rep(CHOOSE p \in Elems(graph) : p.id = ids[i]))}
        f == [i \in at |->
                 LET r == Rep(CHOOSE p \in Elems(graph) : p.id = ids[i])
                 IN  IF r.k \in {"null", "empty"} THEN 0 ELSE r.v]
        \* the k-th smallest of the values
        OrderStat(k) ==
            CHOOSE v \in {f[i] : i \in at} :
                /\ Cardinality({i \in at : f[i] < v}) < k
                /\ Cardinality({i \in at : f[i] <= v}) >= k
        n == Cardinality(at)
        twiceMedian == IF n % 2 = 1 THEN 2 * OrderStat((n + 1) \div 2)
                       ELSE OrderStat(n \div 2) + OrderStat(n \div 2 + 1)
    IN  IF n = 0 THEN NegInfinity ELSE twiceMedian + 2 * OrderStat(1)

LookupFailed ==
    \/ frontier.ids.error # ""
    \/ frontier.ids.studentId = 0
    \/ frontier.ids.courseId = 0
    \/ frontier.ids.hostname = ""

(* C17: fetchFrontierTopics is never called when the identity lookup       *)
(* reported an error or returned a null studentId, courseId or hostname;   *)
(* the page then ends in its error state with a message, loading false     *)
(* and an empty topic list.                                                *)
C17_IdentityPrecondition ==
    (frontier.pc # "lookup" /\ LookupFailed) =>
        /\ ~frontier.called
        /\ frontier.pc = "error"
        /\ frontier.error # ""
        /\ ~frontier.loading
        /\ frontier.topics = <<>>

(* the content script answered with one id only and no error *)
C17_Witness ==
    /\ frontier.pc = "error"
    /\ frontier.ids.error = ""
    /\ frontier.ids.studentId # 0
    /\ frontier.ids.courseId = 0
    /\ frontier.ids.hostname # ""

----------------------------------------------------------------------------
(* Properties of the overview statistics *)

(* C18: every attainment percentage of calculateXPAttainment and every     *)
(* point of the 7-day rolling attainment series lies between 0 and 100     *)
(* when totalPossible > 0 and is 0 when totalPossible = 0.                 *)
C18_AttainmentBound ==
    stats.pc = "computed" =>
        /\ stats.attainment.totalPossible > 0 =>
               (0 <= stats.attainment.value /\ stats.attainment.value <= 1000)
        /\ stats.attainment.totalPossible = 0 => stats.attainment.value = 0
        /\ \A i \in DOMAIN stats.rolling :
               /\ stats.rolling[i].totalPossible > 0 =>
                      (0 <= stats.rolling[i].value /\ stats.rolling[i].value <= 100)
               /\ stats.rolling[i].totalPossible = 0 => stats.rolling[i].value = 0

HasQuizName(a) == includes(toLowerCase(a.name), QUIZ)

Awarded(a) == IF a.pointsAwarded = Undefined THEN 0 ELSE a.pointsAwarded

OnDay(d) == {i \in 1..Len(stats.activities) : stats.activities[i].day = d}

(* C19: in groupActivitiesByDay every activity adds 1 to the count and its *)
(* awarded XP to the xp sum of its day; a diagnostic-like activity whose   *)
(* test name does not contain "quiz" adds its awarded XP to totalEarned    *)
(* and to totalPossible, every other activity its awarded XP to            *)
(* totalEarned and its points (10 when unspecified) to totalPossible.      *)
C19_DailyAggregation ==
    stats.pc = "computed" =>
        /\ DOMAIN stats.daily = {stats.activities[i].day : i \in 1..Len(stats.activities)}
        /\ \A d \in DOMAIN stats.daily :
               /\ stats.daily[d].count = Cardinality(OnDay(d))
               /\ stats.daily[d].xp =
                      SumOver([i \in OnDay(d) |-> Awarded(stats.activities[i])], OnDay(d))
               /\ stats.daily[d].totalEarned =
                      SumOver([i \in OnDay(d) |-> Awarded(stats.activities[i])], OnDay(d))
               /\ stats.daily[d].totalPossible =
                      SumOver([i \in OnDay(d) |->
                                  IF toLowerCase(stats.activities[i].type) \in DiagnosticTypes
                                     /\ ~HasQuizName(stats.activities[i])
                                  THEN Awarded(stats.activities[i])
                                  ELSE IF stats.activities[i].points = Undefined THEN 10
                                  ELSE stats.activities[i].points], OnDay(d))

InCounter(c, a) ==
    IF c = "quizzes" THEN HasQuizName(a) \/ toLowerCase(a.type) = QUIZ
    ELSE /\ ~HasQuizName(a)
         /\ \/ c = "diagnostics" /\ toLowerCase(a.type) \in DiagnosticTypes
            \/ c = "lessons" /\ toLowerCase(a.type) = LESSON
            \/ c = "reviews" /\ toLowerCase(a.type) = REVIEW
            \/ c = "multisteps" /\ toLowerCase(a.type) = MULTISTEP

(* C20: calculateActivityCounts puts each activity in at most one of the   *)
(* five counters; an activity whose test name contains "quiz" in any case  *)
(* is counted as a quiz whatever its type, an activity of unrecognized     *)
(* type is counted nowhere, and the five counters sum to the number of     *)
(* activities with a recognized classification, never more than the list.  *)
C20_ActivityCounts ==
    stats.pc = "computed" =>
        /\ \A i \in 1..Len(stats.activities) :
               Cardinality({c \in Counters : InCounter(c, stats.activities[i])}) <= 1
        /\ \A c \in Counters :
               stats.counts[c] =
                   Cardinality({i \in 1..Len(stats.activities) :
                                   InCounter(c, stats.activities[i])})
        /\ SumOver(stats.counts, Counters) =
               Cardinality({i \in 1..Len(stats.activities) :
                               \E c \in Counters : InCounter(c, stats.activities[i])})
        /\ SumOver(stats.counts, Counters) <= Len(stats.activities)

(* a lesson named as a quiz next to an activity of an unknown type *)
C20_Witness ==
    /\ stats.pc = "computed"
    /\ \E i, j \in 1..Len(stats.activities) :
           /\ stats.activities[i].type = LESSON
           /\ HasQuizName(stats.activities[i])
           /\ \A c \in Counters : ~InCounter(c, stats.activities[j])
    /\ stats.counts["quizzes"] = 1
    /\ stats.counts["lessons"] = 0
    /\ SumOver(stats.counts, Counters) < Len(stats.activities)

----------------------------------------------------------------------------
(* Properties of the cursor, of the popup's recovery and of the merge *)

(* C26: after a non-empty page the next cursor is the minimum parsable     *)
(* completed time of the page minus 60000 ms when that is strictly less    *)
(* than the current cursor, otherwise the current cursor minus 1000 days;  *)
(* after an empty page it is the current cursor minus 1000 days; the cycle *)
(* stops as soon as the new cursor is before WINDOW_START.                 *)
C26_NextCursorRule ==
    [][ (pc = "fetching" /\ pc' \in {"fetching", "merge"}) =>
            /\ IF pages' = pages
               THEN cursor' = cursor - OVERLAP_DAYS * DaySec
               ELSE \E page \in ServerPages(cursor) \ {<<>>} :
                       LET times == PageTimes(page)
                           value == MinOf(times) - LeadSec
                       IN  /\ newActivities' = newActivities \o FreshItems(page, 1, seen)
                           /\ cursor' = IF times # {} /\ value < cursor THEN value
                                        ELSE cursor - OVERLAP_DAYS * DaySec
            /\ cursor' < windowStart => pc' = "merge" ]_vars

(* C28: whether fetchAllActivities resolves or rejects, loading returns to *)
(* false; when it rejects the error message is shown, the progress text is *)
(* cleared and the activities shown before the fetch are unchanged.        *)
C28_PopupRecovery ==
    /\ [][ /\ (result.status = "none" /\ result'.status # "none") => ~loading'
           /\ (result.status = "none" /\ result'.status = "rejected") =>
                  /\ error' # ""
                  /\ progress' = ""
                  /\ activities' = activities
           /\ (loading /\ loading') => activities' = activities ]_vars
    /\ loading ~> ~loading

(* a second cycle failed over a list that an earlier cycle had shown *)
C28_Witness ==
    /\ pc = "failed"
    /\ cycle = 2
    /\ ~loading
    /\ error # ""
    /\ activities # <<>>
    /\ committed

(* C29: within one cycle the cursor of each page request is strictly       *)
(* earlier than the cursor of the request before it, and lastCursorMs      *)
(* equals the cursor at the moment of every request.                       *)
C29_CursorMonotonic ==
    [][ (pc = "fetching" /\ pc' = "fetching") =>
            /\ Less(cursor', cursor)
            /\ lastCursorMs = cursor
            /\ lastCursorMs' = cursor' ]_vars

----------------------------------------------------------------------------
(* Properties of the identity lookup *)

(* C27: sendMessageWithRetry sends the message at most maxRetries times,   *)
(* waits delayMs after each failed attempt except the last, returns the    *)
(* first successful response without a further attempt, and fails with    *)
(* the error of the last attempt only after all attempts have failed.      *)
C27_LookupRetry ==
    LET failed == Len(frontier.sendErrors)
        sent == failed + (IF frontier.answered THEN 1 ELSE 0)
        UserMessage(m) == IF m = "Receiving end does not exist"
                          THEN "Could not connect to Math Academy page." ELSE m
    IN  /\ sent <= maxRetries
        /\ frontier.waited = delayMs * (IF failed = maxRetries THEN failed - 1 ELSE failed)
        /\ frontier.answered => frontier.pc # "lookup"
        /\ (frontier.pc # "lookup" /\ ~frontier.answered /\ failed > 0) =>
               /\ failed = maxRetries
               /\ frontier.pc = "error"
               /\ frontier.ids.error = UserMessage(frontier.sendErrors[maxRetries])
        /\ (frontier.pc = "lookup") => failed < maxRetries

(* two attempts failed, the third was answered and the page went on *)
C27_Witness ==
    /\ frontier.pc = "done"
    /\ frontier.answered
    /\ Len(frontier.sendErrors) = 2
    /\ frontier.waited = 2 * delayMs

----------------------------------------------------------------------------
(* Properties of the overview charts and of the course table *)

(* C21: walking the activities in ascending completed order,               *)
(* getCourseTransitions emits an event exactly at an activity whose course *)
(* name is not "Unknown" and differs from the course of the latest earlier *)
(* activity with a course; the event goes from that course to the          *)
(* activity's.  So no event has "Unknown" as from or to, from differs from *)
(* to, and each event starts from the course the event before it went to.  *)
C21_CourseTransitions ==
    stats.pc = "transitions" =>
        LET sorted == stats.sortedActivities
            events == stats.transitions
            n == Len(sorted)
            Name(i) == IF sorted[i].course = "" THEN "Unknown" ELSE sorted[i].course
            Earlier(i) == {j \in 1..(i - 1) : Name(j) # "Unknown"}
            Latest(i) == CHOOSE j \in Earlier(i) : \A k \in Earlier(i) : k <= j
            Emitting == {i \in 1..n : /\ Name(i) # "Unknown"
                                      /\ Earlier(i) # {}
                                      /\ Name(Latest(i)) # Name(i)}
            EventAt(k) == CHOOSE i \in Emitting :
                         Cardinality({j \in Emitting : j < i}) = k - 1
        IN  /\ (\A i \in 1..Len(stats.activities) : stats.activities[i].completed # NaN)
                   => /\ \A i \in 1..(n - 1) : sorted[i].completed <= sorted[i + 1].completed
                      /\ \A a \in ChartTasks :
                             Cardinality({i \in 1..n : sorted[i] = a})
                                 = Cardinality({i \in 1..n : stats.activities[i] = a})
            /\ Len(events) = Cardinality(Emitting)
            /\ \A k \in 1..Len(events) :
                   /\ events[k].toCourse = Name(EventAt(k))
                   /\ events[k].fromCourse = Name(Latest(EventAt(k)))
                   /\ events[k].timestamp = sorted[EventAt(k)].completed
                   /\ events[k].fromCourse # "Unknown"
                   /\ events[k].toCourse # "Unknown"
                   /\ events[k].fromCourse # events[k].toCourse
                   /\ k > 1 => events[k].fromCourse = events[k - 1].toCourse

(* two changes of course, the first across an activity without a course *)
C21_Witness ==
    /\ stats.pc = "transitions"
    /\ Len(stats.sortedActivities) = 4
    /\ [i \in 1..4 |-> stats.sortedActivities[i].course] = <<"MF I", "", "MF II", "MF I">>
    /\ stats.activities # stats.sortedActivities
    /\ [k \in 1..Len(stats.transitions) |->
           <<stats.transitions[k].fromCourse, stats.transitions[k].toCourse>>]
         = << <<"MF I", "MF II">>, <<"MF II", "MF I">> >>

(* C22: for a non-empty list, getCumulativeXPData and                      *)
(* getCumulativeActivitiesData return one point per calendar day from the  *)
(* first activity's day through today, days without an activity included;  *)
(* the value of day d is the XP (the number) of the activities whose local *)
(* completed date is on or before d, so the last value is the total.       *)
C22_CumulativeSeries ==
    (/\ stats.pc = "charts"
     /\ stats.filteredActivities # <<>>
     /\ \A i \in 1..Len(stats.filteredActivities) :
            stats.filteredActivities[i].completed # NaN)
        => LET acts == stats.filteredActivities
               idx == 1..Len(acts)
               firstDay == CHOOSE d \in {acts[i].day : i \in idx} :
                               \A i \in idx : d <= acts[i].day
               UpTo(d) == {i \in idx : acts[i].day <= d}
               xp == stats.cumulativeXPData
               number == stats.cumulativeActivitiesData
           IN  /\ Len(xp) = Today - firstDay + 1
               /\ Len(number) = Today - firstDay + 1
               /\ \A k \in 1..Len(xp) :
                      xp[k].value = SumOver([i \in idx |-> acts[i].pointsAwarded],
                                            UpTo(firstDay + k - 1))
               /\ \A k \in 1..Len(number) :
                      number[k].value = Cardinality(UpTo(firstDay + k - 1))
               /\ xp[Len(xp)].value = SumOver([i \in idx |-> acts[i].pointsAwarded], idx)
               /\ number[Len(number)].value = Len(acts)

(* C23: an activity whose completed timestamp cannot be parsed contributes *)
(* to no day bucket, to no point of a series and to no list filtered by a  *)
(* period of days; the daily aggregation and the series are those of the   *)
(* other activities.                                                       *)
C23_UnparsableExcluded ==
    stats.pc = "charts" =>
        LET Parses(activity) == activity.completed # NaN
            others == SelectSeq(stats.filteredActivities, Parses)
            days == {others[i].day : i \in 1..Len(others)}
            first == IF days = {} THEN Today
                     ELSE CHOOSE d \in days : \A e \in days : d <= e
        IN  /\ NaN \notin DOMAIN stats.dailyData
            /\ stats.dailyData = groupActivitiesByDay(others)
            /\ stats.cumulativeXPData = getCumulativeXPData(others, stats.tz, first)
            /\ stats.cumulativeActivitiesData
                   = getCumulativeActivitiesData(others, stats.tz, first)
            /\ stats.period # "all time" => others = stats.filteredActivities

(* C25: generateStats leaves out every activity whose duration completed - *)
(* started is <= 0 or above two hours, groups the others by course, counts *)
(* them, reports for each threshold the percentage of the course's         *)
(* remaining activities with pointsAwarded / durationMinutes >= threshold, *)
(* and has no row for a course without a remaining activity.               *)
C25_CourseStatsFilter ==
    stats.pc = "stats" =>
        LET acts == stats.activities
            table == stats.statsData
            Duration(i) == acts[i].completed - acts[i].started
            Kept == {i \in 1..Len(acts) : Duration(i) > 0 /\ Duration(i) <= 2 * 60}
            Row(c) == {i \in Kept : acts[i].course = c}
            Reached(c, th) ==
                {i \in Row(c) : 100 * acts[i].pointsAwarded >= th * Duration(i)}
        IN  /\ DOMAIN table = {acts[i].course : i \in Kept}
            /\ \A c \in DOMAIN table :
                   /\ table[c].courseName = c
                   /\ table[c].activityCount = Cardinality(Row(c))
                   /\ table[c].activityCount > 0
                   /\ DOMAIN table[c].thresholdPercentages = {75, 100, 125, 150, 175, 200}
                   /\ \A th \in DOMAIN table[c].thresholdPercentages :
                          /\ table[c].thresholdPercentages[th]
                                 = MathRound(1000 * Cardinality(Reached(c, th)),
                                             Cardinality(Row(c)))
                          /\ Reached(c, th) = Row(c)
                                 => table[c].thresholdPercentages[th] = 1000
                          /\ Reached(c, th) = {}
                                 => table[c].thresholdPercentages[th] = 0

(* a three-hour activity of one course, left out with its course, and 15   *)
(* XP in 10 minutes of another, counted for 1.0 and 1.25 but not for 1.75  *)
C25_Witness ==
    /\ stats.pc = "stats"
    /\ \E i \in 1..Len(stats.activities) :
           /\ stats.activities[i].completed - stats.activities[i].started = 180
           /\ stats.activities[i].course = "MF I"
    /\ DOMAIN stats.statsData = {"MF II"}
    /\ stats.statsData["MF II"].activityCount = 1
    /\ stats.statsData["MF II"].thresholdPercentages[100] = 1000
    /\ stats.statsData["MF II"].thresholdPercentages[125] = 1000
    /\ stats.statsData["MF II"].thresholdPercentages[175] = 0

(* the value an RFC 4180 reader gives a field: an escaped field is wrapped *)
(* in double quotes and every quote inside is one of a pair, which reads   *)
(* as one quote; any other field is TEXTDATA only, without a quote or a    *)
(* carriage return (a comma or a line break would have ended the field)    *)
ReadField(f) ==
    LET inner == SubSeq(f, 2, Len(f) - 1)
        Q == {i \in 1..Len(inner) : inner[i] = "\""}
        Rank(i) == Cardinality({j \in Q : j <= i})
        Keep == {i \in 1..Len(inner) : ~(i \in Q /\ Rank(i) % 2 = 0)}
        unescaped == [k \in 1..Cardinality(Keep) |->
                         inner[CHOOSE i \in Keep :
                                   Cardinality({j \in Keep : j <= i}) = k]]
    IN  IF f # <<>> /\ f[1] = "\""
        THEN [valid |-> /\ Len(f) >= 2
                        /\ f[Len(f)] = "\""
                        /\ Cardinality(Q) % 2 = 0
                        /\ \A i \in Q : IF Rank(i) % 2 = 1 THEN i + 1 \in Q
                                        ELSE i - 1 \in Q,
              text |-> unescaped]
        ELSE [valid |-> \A i \in 1..Len(f) : f[i] \notin {"\"", "\r"},
              text |-> f]

(* C24: the output of downloadCSV has a header row and one row for each    *)
(* activity, every row with the 14 fields id, type, points, pointsAwarded, *)
(* topic.id, topic.name, topic.course.id, topic.course.name, started,      *)
(* completed, test.id, test.name, test.course.id, test.course.name in this *)
(* order; read with the rules of RFC 4180 (line feed as the line break)    *)
(* every field gives back the original string, and the empty string for    *)
(* null.                                                                   *)
C24_CsvRoundTrip ==
    stats.pc = "exported" =>
        LET c == stats.csvContent
            acts == stats.activities
            Outside(k) == Cardinality({j \in 1..(k - 1) : c[j] = "\""}) % 2 = 0
            Seps == {k \in 1..Len(c) : Outside(k) /\ c[k] \in {",", "\n"}}
            Breaks == {k \in Seps : c[k] = "\n"}
            Starts == {1} \cup {k + 1 : k \in Seps}
            EndOf(s) == IF \E k \in Seps : k >= s
                        THEN (CHOOSE k \in Seps : k >= s /\ \A m \in Seps : m >= s => k <= m) - 1
                        ELSE Len(c)
            RowOf(s) == 1 + Cardinality({k \in Breaks : k < s})
            ColOf(s) == 1 + Cardinality({k \in Seps \ Breaks :
                                            k < s /\ \A b \in Breaks : b < s => b < k})
            names == <<"id", "type", "points", "pointsAwarded", "topic.id",
                       "topic.name", "topic.course.id", "topic.course.name",
                       "started", "completed", "test.id", "test.name",
                       "test.course.id", "test.course.name">>
            values(a) == <<a.id, a.type, a.points, a.pointsAwarded, a.topic.id,
                           a.topic.name, a.topic.course.id, a.topic.course.name,
                           a.started, a.completed, a.test.id, a.test.name,
                           a.test.course.id, a.test.course.name>>
            Original(r, col) == IF r = 1 THEN <<names[col]>>
                                ELSE IF values(acts[r - 1])[col].null THEN <<>>
                                ELSE values(acts[r - 1])[col].text
        IN  /\ Cardinality(Starts) = 14 * (1 + Len(acts))
            /\ \A s \in Starts :
                   /\ RowOf(s) \in 1..(1 + Len(acts))
                   /\ ColOf(s) \in 1..14
                   /\ ReadField(SubSeq(c, s, EndOf(s))).valid
                   /\ ReadField(SubSeq(c, s, EndOf(s))).text = Original(RowOf(s), ColOf(s))

============================================================================
